---------------------------- MODULE Spec2Model ----------------------------
(***************************************************************************)
(* Model of src/src/lib.rs (rusty-axe): extraction of SysEx frames from a  *)
(* byte buffer (parse_sysex_messages) and decoding of the first frame into *)
(* a Preset (read_syx), driven by parse_preset.                            *)
(*                                                                         *)
(* Bytes are integers 0..255.  A Rust slice index i is the TLA+ sequence   *)
(* index i + 1; At(buf, i) reads buf[i].  A panic (unwrap on None, index   *)
(* out of range) ends the run in pc = "panic" with the source line of the  *)
(* panic in `panicked`.                                                    *)
(***************************************************************************)
EXTENDS Integers, Sequences, FiniteSets, TLC

(***************************************************************************)
(* Bounds of the model.                                                    *)
(***************************************************************************)
\* longest payload (bytes between the message-type byte and the checksum)
MaxPayload == 2
\* longest tail of bytes that follows the first frame in an input buffer
MaxTail == 2
\* longest buffer built from the sentinel bytes and one data byte only
MaxRaw == 5

(***************************************************************************)
(* Program constants.                                                      *)
(***************************************************************************)
\* 0xf0
SYSEX_MESSAGE_START_BYTE == 240
\* 0xf7
SYSEX_MESSAGE_END_BYTE == 247
\* 0x7f, target selector of the current edit buffer
CURRENT_EDIT_BUFFER == 127
\* 0x7F, checksum mask; x & 0x7F = x % (CHECKSUM_MASK + 1)
CHECKSUM_MASK == 127

(***************************************************************************)
(* Slices.                                                                 *)
(***************************************************************************)
\* buf[i] of Rust (0-based)
At(buf, i) == buf[i + 1]

\* whether buf[i] is in range
InRange(buf, i) == i < Len(buf)

\* &s[from..to] of Rust: bytes from..to-1 (0-based, to exclusive)
Slice(s, from, to) == SubSeq(s, from + 1, to)

\* the value of Option::None for an index
NoIndex == -1

(***************************************************************************)
(* find_sysex_message_start: Some(0) when the first byte is the start      *)
(* sentinel, None otherwise (also for the empty slice).                    *)
(***************************************************************************)
find_sysex_message_start_skipping(data) ==
    IF \E i \in 0..(Len(data) - 1) : At(data, i) = SYSEX_MESSAGE_START_BYTE
    THEN CHOOSE i \in 0..(Len(data) - 1) :
            /\ At(data, i) = SYSEX_MESSAGE_START_BYTE
            /\ \A j \in 0..(i - 1) : At(data, j) # SYSEX_MESSAGE_START_BYTE
    ELSE NoIndex

find_sysex_message_start(data) ==
    IF InRange(data, 0) /\ At(data, 0) = SYSEX_MESSAGE_START_BYTE
    THEN 0
    ELSE NoIndex

(***************************************************************************)
(* find_sysex_message_end: index of the first end sentinel, None when      *)
(* there is none.                                                          *)
(***************************************************************************)
RECURSIVE find_end_from(_, _)
find_end_from(data, index) ==
    IF index >= Len(data) THEN NoIndex
    ELSE IF At(data, index) = SYSEX_MESSAGE_END_BYTE THEN index
    ELSE find_end_from(data, index + 1)

find_sysex_message_end_last(data) ==
    IF \E i \in 0..(Len(data) - 1) : At(data, i) = SYSEX_MESSAGE_END_BYTE
    THEN CHOOSE i \in 0..(Len(data) - 1) :
            /\ At(data, i) = SYSEX_MESSAGE_END_BYTE
            /\ \A j \in (i + 1)..(Len(data) - 1) : At(data, j) # SYSEX_MESSAGE_END_BYTE
    ELSE NoIndex

find_sysex_message_end(data) == find_end_from(data, 0)

\* let boundary = end + 1
boundary_at_end(end) == end

boundary_of(end) == end + 1

(***************************************************************************)
(* Bit operations on u8.                                                   *)
(***************************************************************************)
RECURSIVE Xor(_, _)
Xor(a, b) ==
    IF a = 0 THEN b
    ELSE IF b = 0 THEN a
    ELSE ((a + b) % 2) + 2 * Xor(a \div 2, b \div 2)

\* buf[..n].iter().fold(0, |acc, &x| acc ^ x)
RECURSIVE fold_xor(_, _, _)
fold_xor(s, i, acc) ==
    IF i >= Len(s) THEN acc ELSE fold_xor(s, i + 1, Xor(acc, At(s, i)))

(***************************************************************************)
(* get_checksums: (stored checksum, computed checksum).  Called only with  *)
(* Len(buf) >= 2 (the caller has read buf[5] before).                      *)
(***************************************************************************)
get_checksums_mask6(buf) ==
    LET checksum_index == Len(buf) - 2
        file_checksum == At(buf, checksum_index)
        xor == fold_xor(Slice(buf, 0, checksum_index), 0, 0)
    IN  <<file_checksum, xor % 64>>

get_checksums(buf) ==
    LET checksum_index == Len(buf) - 2
        file_checksum == At(buf, checksum_index)
        xor == fold_xor(Slice(buf, 0, checksum_index), 0, 0)
        calculated_checksum == xor % (CHECKSUM_MASK + 1)
    IN  <<file_checksum, calculated_checksum>>

(***************************************************************************)
(* axe_model_name                                                          *)
(***************************************************************************)
axe_model_name(code) ==
    CASE code = 0 -> "Axe-Fx Standard"
      [] code = 1 -> "Axe-Fx Ultra"
      [] code = 3 -> "Axe-Fx II"
      [] code = 5 -> "FX8"
      [] code = 6 -> "Axe-Fx II XL"
      [] code = 7 -> "Axe-Fx II XL+"
      [] code = 8 -> "AX8"
      [] OTHER    -> "Unknown"

(***************************************************************************)
(* validate_header: the && chain short-circuits, so buf[5] is read only    *)
(* when the three vendor bytes match.  Result: [panic |-> line, ok |->     *)
(* value]; panic = 0 when no index was out of range.                       *)
(***************************************************************************)
Returned(v) == [panic |-> 0, ok |-> v]

Panicked(line) == [panic |-> line, ok |-> FALSE]

validate_header_no_vendor0(buf) ==
    IF ~InRange(buf, 2) THEN Panicked(88)
    ELSE IF At(buf, 2) # 1 THEN Returned(FALSE)
    ELSE IF ~InRange(buf, 3) THEN Panicked(90)
    ELSE IF At(buf, 3) # 116 THEN Returned(FALSE)
    ELSE IF ~InRange(buf, 5) THEN Panicked(93)
    ELSE Returned(At(buf, 5) \in {119, 122, 4})

validate_header(buf) ==
    IF ~InRange(buf, 1) THEN Panicked(86)
    ELSE IF At(buf, 1) # 0 THEN Returned(FALSE)
    ELSE IF ~InRange(buf, 2) THEN Panicked(88)
    ELSE IF At(buf, 2) # 1 THEN Returned(FALSE)
    ELSE IF ~InRange(buf, 3) THEN Panicked(90)
    ELSE IF At(buf, 3) # 116 THEN Returned(FALSE)
    ELSE IF ~InRange(buf, 5) THEN Panicked(93)
    ELSE Returned(At(buf, 5) \in {119, 122, 4})

(***************************************************************************)
(* Formatting: {:0w$X} with w = 2 is uppercase hexadecimal, zero-padded to *)
(* at least two digits.                                                    *)
(***************************************************************************)
HexDigit(d) ==
    CASE d = 0 -> "0" [] d = 1 -> "1" [] d = 2 -> "2" [] d = 3 -> "3"
      [] d = 4 -> "4" [] d = 5 -> "5" [] d = 6 -> "6" [] d = 7 -> "7"
      [] d = 8 -> "8" [] d = 9 -> "9" [] d = 10 -> "A" [] d = 11 -> "B"
      [] d = 12 -> "C" [] d = 13 -> "D" [] d = 14 -> "E" [] d = 15 -> "F"

RECURSIVE upper_hex(_)
upper_hex(n) ==
    IF n < 16 THEN HexDigit(n) ELSE upper_hex(n \div 16) \o HexDigit(n % 16)

RECURSIVE zero_pad(_, _)
zero_pad(s, width) == IF Len(s) >= width THEN s ELSE zero_pad("0" \o s, width)

format_02X(b) == zero_pad(upper_hex(b), 2)

\* print_bytes: every byte followed by a space, then the end of the line
RECURSIVE print_bytes_from(_, _)
print_bytes_from(buf, i) ==
    IF i >= Len(buf) THEN ""
    ELSE (format_02X(At(buf, i)) \o " ") \o print_bytes_from(buf, i + 1)

print_bytes(buf) == print_bytes_from(buf, 0)

\* the two lines read_syx prints when validate_header is false
header_diagnostic(buf) ==
    <<"This does not look like a Axe FX patch file.", print_bytes(buf)>>

\* the line read_syx prints when the checksums differ
checksum_diagnostic_swapped(model, calculated_checksum, file_checksum) ==
    <<((((("Invalid checksum (model " \o model) \o ")! Expected ")
          \o format_02X(file_checksum)) \o " but got ")
          \o format_02X(calculated_checksum))>>

checksum_diagnostic(model, calculated_checksum, file_checksum) ==
    <<((((("Invalid checksum (model " \o model) \o ")! Expected ")
          \o format_02X(calculated_checksum)) \o " but got ")
          \o format_02X(file_checksum))>>


(***************************************************************************)
(* Input buffers.  parse_preset accepts any byte slice; the model feeds it *)
(*  - every buffer of at most MaxRaw bytes over RawBytes, and              *)
(*  - every frame of FrameSamples followed by every tail of TailSamples.   *)
(* A frame sample is a prefix of a header-shaped message (start sentinel,  *)
(* vendor bytes, model code, message type, payload, checksum byte) closed  *)
(* by the end sentinel, so frames shorter than the header occur too.       *)
(***************************************************************************)
SeqsUpTo(S, n) == UNION {[1..k -> S] : k \in 0..n}

RawBytes == {0, SYSEX_MESSAGE_START_BYTE, SYSEX_MESSAGE_END_BYTE}

TailBytes == {SYSEX_MESSAGE_START_BYTE, SYSEX_MESSAGE_END_BYTE}

\* the vendor signature 00 01 74 and its one-byte deviations (00 and 7D
\* are the values of earlier firmware named in validate_header's comments)
VendorSamples == {<<0, 1, 116>>, <<1, 1, 116>>, <<0, 0, 116>>, <<0, 1, 125>>}

\* 0x03 "Axe-Fx II"; 0x72, not in the table
ModelCodeSamples == {3, 114}

\* the three accepted message types 0x77, 0x7A, 0x04 and 0x70
MessageTypeSamples == {119, 122, 4, 112}

\* 0x00, 0x7F (current edit buffer), 0x80 (not a 7-bit value)
PayloadBytes == {0, 127, 128}

\* bit k of byte b
Bit(b, k) == (b \div (2 ^ k)) % 2

\* The checksum of the wire format, bit by bit: bit k (k < 7) is the
\* parity of the number of bytes of s that have bit k set.
ParityChecksum(s) ==
    LET ones(k) == Cardinality({i \in 1..Len(s) : Bit(s[i], k) = 1})
        RECURSIVE sum(_)
        sum(k) == IF k > 6 THEN 0 ELSE (ones(k) % 2) * (2 ^ k) + sum(k + 1)
    IN  sum(0)

MessageBodies ==
    {(<<SYSEX_MESSAGE_START_BYTE>> \o v) \o (<<m, t>> \o p) :
        v \in VendorSamples, m \in ModelCodeSamples,
        t \in MessageTypeSamples, p \in SeqsUpTo(PayloadBytes, MaxPayload)}

\* a body with its checksum byte: the right one, or one that is off by one
ChecksummedBodies ==
    UNION {{b \o <<ParityChecksum(b)>>,
            b \o <<(ParityChecksum(b) + 1) % 128>>} : b \in MessageBodies}

FrameSamples ==
    UNION {{SubSeq(b, 1, k) \o <<SYSEX_MESSAGE_END_BYTE>> : k \in 1..Len(b)} :
              b \in ChecksummedBodies}

TailSamples == SeqsUpTo(TailBytes, MaxTail)

Inputs ==
    SeqsUpTo(RawBytes, MaxRaw) \cup {f \o t : f \in FrameSamples, t \in TailSamples}

(***************************************************************************)
(* State.                                                                  *)
(***************************************************************************)
VARIABLES
    data,       \* parse_preset's argument
    pos,        \* offset in data of `remainder` (remainder = data[pos..])
    messages,   \* the Vec<&[u8]>: each slice as [off, len] into data
    pc,         \* where the run is
    buf,        \* read_syx's argument
    model,      \* read_syx's local `model`
    sink,       \* the lines printed so far
    result,     \* read_syx's return value
    panicked,   \* source line of the panic that ended the run, 0 if none
    orig        \* the decoded frame a changed frame was made from, else <<>>

vars == <<data, pos, messages, pc, buf, model, sink, result, panicked, orig>>

\* the bytes of a slice of data
SliceBytes(m) == Slice(data, m.off, m.off + m.len)

Pending == [tag |-> "Pending"]

None == [tag |-> "None"]

Some(m, t) == [tag |-> "Some", model |-> m, target |-> t]

CurrentEditBuffer == [tag |-> "CurrentEditBuffer"]

BankAndPreset(b, p) == [tag |-> "BankAndPreset", bank |-> b, preset |-> p]

Init ==
    /\ data \in Inputs
    /\ pos = 0
    /\ messages = <<>>
    /\ pc = "parse_sysex_messages"
    /\ buf = <<>>
    /\ model = ""
    /\ sink = <<>>
    /\ result = Pending
    /\ panicked = 0
    /\ orig = <<>>

\* a panic at the given source line ends the run
Panic(line) ==
    /\ pc' = "panic"
    /\ panicked' = line

(***************************************************************************)
(* parse_sysex_messages, one iteration of its while loop (lines 25-32).    *)
(***************************************************************************)
ParseLoopStep ==
    /\ pc = "parse_sysex_messages"
    /\ pos < Len(data)
    /\ LET remainder == Slice(data, pos, Len(data))
           start == find_sysex_message_start(remainder)
           end == find_sysex_message_end(remainder)
           boundary == boundary_of(end)
       IN  IF start = NoIndex
           THEN Panic(26) /\ UNCHANGED <<pos, messages>>
           ELSE IF end = NoIndex
           THEN Panic(27) /\ UNCHANGED <<pos, messages>>
           ELSE IF start > boundary
           THEN Panic(29) /\ UNCHANGED <<pos, messages>>
           ELSE /\ messages' = Append(messages,
                                      [off |-> pos + start, len |-> boundary - start])
                /\ pos' = pos + boundary
                /\ UNCHANGED <<pc, panicked>>
    /\ UNCHANGED <<data, buf, model, sink, result, orig>>

(***************************************************************************)
(* parse_sysex_messages, loop exit and `return messages` (lines 25, 34).   *)
(***************************************************************************)
ParseReturn ==
    /\ pc = "parse_sysex_messages"
    /\ pos >= Len(data)
    /\ pc' = "parse_preset"
    /\ UNCHANGED <<data, pos, messages, buf, model, sink, result, panicked, orig>>

(***************************************************************************)
(* parse_preset, line 15: read_syx(messages[0]).                           *)
(***************************************************************************)
CallReadSyx ==
    /\ pc = "parse_preset"
    /\ IF Len(messages) = 0
       THEN Panic(15) /\ UNCHANGED buf
       ELSE /\ buf' = SliceBytes(messages[1])
            /\ pc' = "read_syx"
            /\ UNCHANGED panicked
    /\ UNCHANGED <<data, pos, messages, model, sink, result, orig>>

(***************************************************************************)
(* read_syx, line 57: let model = axe_model_name(buf[4]).                  *)
(***************************************************************************)
ReadModel ==
    /\ pc = "read_syx"
    /\ IF ~InRange(buf, 4)
       THEN Panic(57) /\ UNCHANGED model
       ELSE /\ model' = axe_model_name(At(buf, 4))
            /\ pc' = "validate_header"
            /\ UNCHANGED panicked
    /\ UNCHANGED <<data, pos, messages, buf, sink, result, orig>>

(***************************************************************************)
(* read_syx, lines 59-63: the header check and its diagnostic.             *)
(***************************************************************************)
ValidateHeader ==
    /\ pc = "validate_header"
    /\ LET v == validate_header(buf)
       IN  IF v.panic # 0
           THEN Panic(v.panic) /\ UNCHANGED <<sink, result>>
           ELSE IF ~v.ok
           THEN /\ sink' = sink \o header_diagnostic(buf)
                /\ result' = None
                /\ pc' = "done"
                /\ UNCHANGED panicked
           ELSE /\ pc' = "get_checksums"
                /\ UNCHANGED <<sink, result, panicked>>
    /\ UNCHANGED <<data, pos, messages, buf, model, orig>>

(***************************************************************************)
(* read_syx, lines 65-69: the checksum comparison and its diagnostic.      *)
(***************************************************************************)
CompareChecksums ==
    /\ pc = "get_checksums"
    /\ IF Len(buf) < 2
       THEN Panic(102) /\ UNCHANGED <<sink, result>>
       ELSE LET sums == get_checksums(buf)
                file_checksum == sums[1]
                calculated_checksum == sums[2]
            IN  IF file_checksum # calculated_checksum
                THEN /\ sink' = sink \o checksum_diagnostic(model, calculated_checksum,
                                                            file_checksum)
                     /\ result' = None
                     /\ pc' = "done"
                     /\ UNCHANGED panicked
                ELSE /\ pc' = "target"
                     /\ UNCHANGED <<sink, result, panicked>>
    /\ UNCHANGED <<data, pos, messages, buf, model, orig>>

(***************************************************************************)
(* read_syx, lines 71-81: the target and the returned Preset.              *)
(***************************************************************************)
ResolveTarget ==
    /\ pc = "target"
    /\ IF ~InRange(buf, 6)
       THEN Panic(72) /\ UNCHANGED result
       ELSE IF At(buf, 6) = CURRENT_EDIT_BUFFER
       THEN /\ result' = Some(model, CurrentEditBuffer)
            /\ pc' = "done"
            /\ UNCHANGED panicked
       ELSE IF ~InRange(buf, 7)
       THEN Panic(75) /\ UNCHANGED result
       ELSE /\ result' = Some(model, BankAndPreset(At(buf, 6), At(buf, 7)))
            /\ pc' = "done"
            /\ UNCHANGED panicked
    /\ UNCHANGED <<data, pos, messages, buf, model, sink, orig>>

(***************************************************************************)
(* A second call of read_syx, on a frame that was decoded to a Preset and  *)
(* then had one byte before its checksum byte changed: a single bit        *)
(* flipped, or the byte replaced by one of SubstituteBytes.                *)
(***************************************************************************)
SubstituteBytes == {0, 1, 127, 128, 255}

FlipBit(b, k) == IF Bit(b, k) = 1 THEN b - 2 ^ k ELSE b + 2 ^ k

ChangedValues(b) == ({FlipBit(b, k) : k \in 0..7} \cup SubstituteBytes) \ {b}

ReadChangedFrame ==
    /\ pc = "done"
    /\ result.tag = "Some"
    /\ orig = <<>>
    /\ \E i \in 0..(Len(buf) - 3) : \E b \in ChangedValues(At(buf, i)) :
          buf' = [buf EXCEPT ![i + 1] = b]
    /\ orig' = buf
    /\ pc' = "read_syx"
    /\ model' = ""
    /\ sink' = <<>>
    /\ result' = Pending
    /\ UNCHANGED <<data, pos, messages, panicked>>

Next ==
    \/ ParseLoopStep
    \/ ParseReturn
    \/ CallReadSyx
    \/ ReadModel
    \/ ValidateHeader
    \/ CompareChecksums
    \/ ResolveTarget
    \/ ReadChangedFrame

Spec == Init /\ [][Next]_vars

(***************************************************************************)
(* Vocabulary of the properties, stated on the wire format and not through *)
(* the operators above.                                                    *)
(***************************************************************************)
\* what the Frame Extractor hands on: start sentinel first, the first end
\* sentinel of the sequence last
IsFrame(f) ==
    /\ Len(f) >= 2
    /\ f[1] = SYSEX_MESSAGE_START_BYTE
    /\ f[Len(f)] = SYSEX_MESSAGE_END_BYTE
    /\ \A i \in 1..(Len(f) - 1) : f[i] # SYSEX_MESSAGE_END_BYTE

\* offsets 1, 2, 3 hold 00 01 74 and offset 5 holds 77, 7A or 04
HeaderOK(f) ==
    /\ Len(f) >= 6
    /\ f[2] = 0
    /\ f[3] = 1
    /\ f[4] = 116
    /\ f[6] \in {119, 122, 4}

\* the byte at offset len-2
StoredChecksum(f) == f[Len(f) - 1]

\* XOR of the bytes at offsets 0..len-3, masked with 0x7F
ComputedChecksum(f) == ParityChecksum(SubSeq(f, 1, Len(f) - 2))

ChecksumOK(f) == Len(f) >= 2 /\ StoredChecksum(f) = ComputedChecksum(f)

\* the model code table of the wire format
KnownModels ==
    (0 :> "Axe-Fx Standard") @@ (1 :> "Axe-Fx Ultra") @@ (3 :> "Axe-Fx II") @@
    (5 :> "FX8") @@ (6 :> "Axe-Fx II XL") @@ (7 :> "Axe-Fx II XL+") @@ (8 :> "AX8")

NameOf(code) == IF code \in DOMAIN KnownModels THEN KnownModels[code] ELSE "Unknown"

HexTable ==
    <<"0", "1", "2", "3", "4", "5", "6", "7", "8", "9", "A", "B", "C", "D", "E", "F">>

\* a byte as two uppercase hexadecimal digits
TwoHex(b) == HexTable[(b \div 16) + 1] \o HexTable[(b % 16) + 1]

\* the first n bytes, each as two hexadecimal digits and a space
RECURSIVE HexLine(_, _)
HexLine(f, n) == IF n = 0 THEN "" ELSE (HexLine(f, n - 1) \o TwoHex(f[n])) \o " "

\* the run of the Frame Extractor is over: it returned or it panicked
ExtractorEnded == pc # "parse_sysex_messages"

\* the panics of parse_sysex_messages (the two unwraps, the slice)
ExtractorPanicked == panicked \in {26, 27, 29}

\* the panics inside read_syx, validate_header and get_checksums
DecoderPanicked == panicked \in {57, 72, 75, 86, 88, 90, 93, 102}

\* the call of read_syx is over
DecoderEnded == pc \in {"done", "panic"} /\ Len(buf) > 0

\* the frame in buf came from the Frame Extractor (it is not a changed one)
FromExtractor == orig = <<>>

(***************************************************************************)
(* C1  Round-trip framing.  A buffer is the concatenation of N >= 0        *)
(* well-formed frames exactly when it is empty or starts with F0, ends     *)
(* with F7, every F7 but the last is followed by F0 and every F0 but the   *)
(* first follows an F7; its frames are then the pieces cut after each F7.  *)
(* For every such buffer parse_sysex_messages returns (no panic) exactly   *)
(* N slices, the i-th of which is the i-th piece, position and bytes.      *)
(***************************************************************************)
IsConcatOfWellFormed(d) ==
    \/ Len(d) = 0
    \/ /\ d[1] = SYSEX_MESSAGE_START_BYTE
       /\ d[Len(d)] = SYSEX_MESSAGE_END_BYTE
       /\ \A i \in 1..(Len(d) - 1) :
             d[i] = SYSEX_MESSAGE_END_BYTE => d[i + 1] = SYSEX_MESSAGE_START_BYTE
       /\ \A i \in 2..Len(d) :
             d[i] = SYSEX_MESSAGE_START_BYTE => d[i - 1] = SYSEX_MESSAGE_END_BYTE

EndPositions(d) == {i \in 1..Len(d) : d[i] = SYSEX_MESSAGE_END_BYTE}

\* position (1-based) of the n-th end sentinel of d
NthEnd(d, n) ==
    CHOOSE e \in EndPositions(d) : Cardinality({x \in EndPositions(d) : x <= e}) = n

\* offset (0-based) at which the n-th piece starts
PieceStart(d, n) == IF n = 1 THEN 0 ELSE NthEnd(d, n - 1)

\* C1: a concatenation of N well-formed frames is split into exactly those
\* N frames, each at its place and with its bytes, and without a panic.
C1_RoundTripFraming ==
    (ExtractorEnded /\ IsConcatOfWellFormed(data)) =>
        /\ ~ExtractorPanicked
        /\ Len(messages) = Cardinality(EndPositions(data))
        /\ \A i \in 1..Len(messages) :
              /\ messages[i].off = PieceStart(data, i)
              /\ messages[i].off + messages[i].len = NthEnd(data, i)
              /\ SliceBytes(messages[i]) =
                     SubSeq(data, PieceStart(data, i) + 1, NthEnd(data, i))

C1_Witness ==
    /\ pc = "parse_preset"
    /\ IsConcatOfWellFormed(data)
    /\ Len(messages) = 2
    /\ messages[1].len > 2

(***************************************************************************)
(* C2  A Preset is returned only for a frame whose header is valid and     *)
(* whose stored checksum equals the computed one; a frame that violates a  *)
(* header condition or carries another checksum yields no Preset.          *)
(***************************************************************************)
\* C2: a Preset implies a valid header and a matching checksum; a frame
\* failing either never ends with a Preset.
C2_PresetOnlyIfValid ==
    /\ result.tag = "Some" => (HeaderOK(buf) /\ ChecksumOK(buf))
    /\ (DecoderEnded /\ ~(HeaderOK(buf) /\ ChecksumOK(buf))) => result.tag # "Some"

C2_Witness ==
    /\ FromExtractor
    /\ result.tag = "Some"
    /\ buf[6] = 122

(***************************************************************************)
(* C3  Target resolution always succeeds: every frame with a valid header  *)
(* and a matching checksum is decoded to a Preset, with target             *)
(* CurrentEditBuffer when offset 6 holds 7F and BankAndPreset{offset 6,    *)
(* offset 7} otherwise.                                                    *)
(***************************************************************************)
\* C3: a frame that passes both checks is decoded to a Preset whose target
\* follows offset 6 (and offset 7).
C3_TargetResolution ==
    (DecoderEnded /\ FromExtractor /\ IsFrame(buf) /\ HeaderOK(buf) /\ ChecksumOK(buf)) =>
        /\ result.tag = "Some"
        /\ result.model = NameOf(buf[5])
        /\ buf[7] = CURRENT_EDIT_BUFFER => result.target = CurrentEditBuffer
        /\ buf[7] # CURRENT_EDIT_BUFFER =>
              /\ Len(buf) >= 8
              /\ result.target = BankAndPreset(buf[7], buf[8])

(***************************************************************************)
(* C4  The decoder is total on frames: for a frame of the Frame Extractor  *)
(* read_syx never ends in a panic.                                         *)
(***************************************************************************)
\* C4: read_syx never panics on a frame of the Frame Extractor.
C4_DecoderTotal == FromExtractor => ~DecoderPanicked

(***************************************************************************)
(* C5  Every BankAndPreset target decoded from a frame of the Frame        *)
(* Extractor has bank and preset in 0..127.                                *)
(***************************************************************************)
\* C5: bank and preset of a decoded BankAndPreset target are at most 127.
C5_SevenBitTarget ==
    (FromExtractor /\ result.tag = "Some" /\ result.target.tag = "BankAndPreset") =>
        /\ result.target.bank \in 0..127
        /\ result.target.preset \in 0..127

(***************************************************************************)
(* C6  Framing failure policy.  parse_sysex_messages panics exactly when   *)
(* at a read position the scan reached (0, or the end of a collected       *)
(* frame) the remaining buffer is not empty and does not start with F0 or  *)
(* holds no F7; otherwise it returns with the whole buffer consumed, and   *)
(* for the empty buffer it returns the empty sequence.                     *)
(***************************************************************************)
ReachedPositions == {0} \cup {messages[i].off + messages[i].len : i \in 1..Len(messages)}

MalformedAt(p) ==
    /\ p < Len(data)
    /\ \/ data[p + 1] # SYSEX_MESSAGE_START_BYTE
       \/ \A i \in (p + 1)..Len(data) : data[i] # SYSEX_MESSAGE_END_BYTE

\* C6: the extractor panics exactly on a malformed remainder at a reached
\* read position, and otherwise consumes the whole buffer.
C6_FramingFailure ==
    /\ ~ExtractorEnded => panicked = 0
    /\ ExtractorEnded =>
          /\ ExtractorPanicked <=> \E p \in ReachedPositions : MalformedAt(p)
          /\ ExtractorPanicked => MalformedAt(pos)
          /\ ~ExtractorPanicked => pos = Len(data)
          /\ Len(data) = 0 => (messages = <<>> /\ ~ExtractorPanicked)

C6_Witness ==
    /\ ExtractorPanicked
    /\ Len(messages) = 1
    /\ data[pos + 1] # SYSEX_MESSAGE_START_BYTE

(***************************************************************************)
(* C7  Corruption is detected.  As claimed: after a frame was decoded to   *)
(* a Preset, changing one byte at an offset in 0..len-3 makes read_syx     *)
(* return no Preset.                                                       *)
(***************************************************************************)
\* the offset (0-based) of the changed byte
ChangedOffset == CHOOSE i \in 0..(Len(buf) - 1) : At(buf, i) # At(orig, i)

\* the change touches one of the low seven bits
LowBitsChanged == At(buf, ChangedOffset) % 128 # At(orig, ChangedOffset) % 128

\* C7, as claimed: every change of one byte before the checksum byte of a
\* decoded frame ends in no Preset.
C7_AnyChangeDetected ==
    (~FromExtractor /\ pc \in {"done", "panic"}) => result = None

(***************************************************************************)
(* C7, amended.  A change that touches one of the low seven bits of the    *)
(* byte makes read_syx return no Preset.  A change of bit 7 alone leaves   *)
(* the masked checksum as it was: read_syx returns no Preset for it at     *)
(* offsets 1, 2, 3 and 5 (the header check) and a Preset at every other    *)
(* offset.  No changed frame makes read_syx panic.                         *)
(***************************************************************************)
\* C7, amended: a change of the low seven bits ends in no Preset; a change
\* of bit 7 alone does so exactly at offsets 1, 2, 3 and 5.
C7_LowBitChangeDetected ==
    (~FromExtractor /\ pc \in {"done", "panic"}) =>
        /\ pc = "done"
        /\ LowBitsChanged => result = None
        /\ ~LowBitsChanged =>
              (result = None <=> ChangedOffset \in {1, 2, 3, 5})

C7_Witness ==
    /\ ~FromExtractor
    /\ pc = "done"
    /\ LowBitsChanged
    /\ HeaderOK(buf)
    /\ ChangedOffset >= 6
    /\ result = None

(***************************************************************************)
(* C8  For every buffer the Frame Extractor splits, parse_preset ends with *)
(* the decoder's result for the first frame, a Preset or no value.  The    *)
(* first frame is the part of the buffer up to its first end sentinel.     *)
(***************************************************************************)
FirstFrame(d) == SubSeq(d, 1, NthEnd(d, 1))

\* C8: whenever the extractor returns, parse_preset ends with a Preset or
\* no value, decoded from the first frame of the buffer.
C8_FirstFrameResult ==
    (pc \in {"done", "panic"} /\ FromExtractor /\ ~ExtractorPanicked) =>
        /\ pc = "done"
        /\ result.tag \in {"Some", "None"}
        /\ buf = FirstFrame(data)

\* What does hold: when the split succeeds and yields a frame, read_syx is
\* called on the part of the buffer up to its first end sentinel, whatever
\* follows it.
FirstFrameIsDecoded ==
    (FromExtractor /\ Len(buf) > 0) => buf = FirstFrame(data)

(***************************************************************************)
(* C9  Loop invariant of the frame scan.  The collected slices are         *)
(* consecutive from offset 0 and end at the read position; each has        *)
(* length >= 2, starts with F0, ends with F7 and holds no other F7; and    *)
(* every iteration that does not panic appends one slice that starts at    *)
(* the old read position and moves the read position forward to just past  *)
(* that slice's end sentinel.                                              *)
(***************************************************************************)
ScanInvariant ==
    /\ pos \in 0..Len(data)
    /\ \A i \in 1..Len(messages) :
          /\ messages[i].off = IF i = 1 THEN 0
                               ELSE messages[i - 1].off + messages[i - 1].len
          /\ messages[i].len >= 2
          /\ IsFrame(SliceBytes(messages[i]))
    /\ pos = IF messages = <<>> THEN 0
             ELSE messages[Len(messages)].off + messages[Len(messages)].len

ScanStep ==
    (pc = "parse_sysex_messages" /\ pc' = "parse_sysex_messages") =>
        /\ pos' > pos
        /\ messages' = Append(messages, [off |-> pos, len |-> pos' - pos])
        /\ data[pos'] = SYSEX_MESSAGE_END_BYTE

\* C9: the scan invariant holds in every state and every iteration of the
\* loop advances as ScanStep says.
C9_ScanLoopInvariant == [](ScanInvariant) /\ [][ScanStep]_vars

C9_Witness ==
    /\ pc = "parse_sysex_messages"
    /\ Len(messages) = 2
    /\ pos < Len(data)

(***************************************************************************)
(* C10  Decision order, first failure wins.  The checksum is compared only *)
(* after the header check has passed, and nothing is printed before.  A    *)
(* frame that fails the header check prints the fixed line and the frame   *)
(* in hexadecimal, and nothing else, whatever its checksum; a frame with a *)
(* valid header and a wrong checksum prints one line with the model name,  *)
(* the computed checksum as expected and the stored one as actual; a call  *)
(* that returns a Preset prints nothing.                                   *)
(***************************************************************************)
ExpectedHeaderLines(f) ==
    <<"This does not look like a Axe FX patch file.", HexLine(f, Len(f))>>

ExpectedChecksumLine(f) ==
    <<"Invalid checksum (model " \o (NameOf(f[5]) \o (")! Expected " \o
      (TwoHex(ComputedChecksum(f)) \o (" but got " \o TwoHex(StoredChecksum(f))))))>>

\* C10: header check before checksum comparison, and exactly one
\* diagnostic, that of the first failing check; none with a Preset or a panic.
C10_DecisionOrder ==
    /\ pc \in {"read_syx", "validate_header"} => sink = <<>>
    /\ pc \in {"get_checksums", "target"} => (HeaderOK(buf) /\ sink = <<>>)
    /\ pc = "target" => ChecksumOK(buf)
    /\ (pc = "done" /\ ~HeaderOK(buf)) =>
          (sink = ExpectedHeaderLines(buf) /\ result = None)
    /\ (pc = "done" /\ HeaderOK(buf) /\ ~ChecksumOK(buf)) =>
          (sink = ExpectedChecksumLine(buf) /\ result = None)
    /\ (pc = "done" /\ HeaderOK(buf) /\ ChecksumOK(buf)) => result.tag = "Some"
    /\ result.tag = "Some" => sink = <<>>
    /\ pc = "panic" => sink = <<>>
    /\ (Len(buf) > 0 /\ ~HeaderOK(buf)) => sink \in {<<>>, ExpectedHeaderLines(buf)}

C10_Witness ==
    /\ FromExtractor
    /\ pc = "done"
    /\ ~HeaderOK(buf)
    /\ Len(buf) >= 8
    /\ ~ChecksumOK(buf)
    /\ Len(sink) = 2

=============================================================================
